---- MODULE Spec2Model ----
(***************************************************************************)
(* A model of sfomuseum/go-github-walk: the GitHubWalker constructor and   *)
(* the recursive traversal WalkURI, in its two revisions:                  *)
(*   "part_000"  src/unnamed/part_000 (api_throttle permit per call,       *)
(*               wait-on-reset retry, unbounded goroutine fan-out)         *)
(*   "walk.go"   src/walk.go (worker-token pool read_throttle, no permit   *)
(*               wait, no retry)                                           *)
(* The GitHub client (GetContents) and the caller's callback are the       *)
(* environment: a repository tree and the answers they give are fixed by   *)
(* Init and looked up by the actions.                                      *)
(***************************************************************************)
EXTENDS Integers, Sequences, FiniteSets, TLC

(* ------------------------------ bounds -------------------------------- *)
\* Largest repository tree (number of paths, the root included).
MaxNodes == 4
\* Largest tree walked concurrently while faults and cancellation may occur.
MaxFanNodes == 3
\* Largest number of faulty answers (rate-limit errors, other fetch errors,
\* callback errors) the fetcher and the callback give during one walk.
MaxFaults == 2

(* ------------------------- program constants -------------------------- *)
DefaultMaxWorkers == 100

Nodes == 1..MaxNodes
Root == 1
\* error values: Nil is the nil error, k > 0 the error that arose at path k
\* (fmt.Errorf with %w keeps the identity of the wrapped error).
NoRet == -1
Nil == 0

VARIABLES
  rev,           \* which revision of the source runs
  uri,           \* the configuration URI handed to NewGitHubWalker
  gw,            \* the *GitHubWalker it returned (NilWalker: nil)
  newErr,        \* the error it returned ("pending" before the call)
  repo,          \* the repository: parent and kind of every path
  api_throttle,  \* ticks buffered in gw.api_throttle (time.Tick: capacity 1)
  emitted,       \* ticks the ticker has put in api_throttle
  read_throttle, \* tokens in gw.read_throttle
  ctxCancelled,  \* the caller's context is Done
  ctxAtCall,     \* whether it was Done when the caller called WalkURI
  cancelled,     \* directories whose derived context had cancel() called
  pc,            \* per path: where the WalkURI call (and its goroutine) is
  ret,           \* per path: the error the call returned
  idx,           \* per directory: position in the range over contents
  remaining,     \* per directory: walkDirectoryContentsConcurrently's counter
  answer,        \* per path: what GetContents answered last
  faults,        \* faulty answers given so far
  fetched,       \* per path: GetContents calls issued
  waits,         \* per path: reset waits slept
  cbLog          \* the paths the callback was invoked with, in order

config == <<rev, uri, gw, newErr, repo>>
throttles == <<api_throttle, emitted, read_throttle>>
ctxs == <<ctxCancelled, ctxAtCall, cancelled>>
calls == <<pc, ret, idx, remaining>>
logs == <<answer, faults, fetched, waits, cbLog>>
vars == <<config, throttles, ctxs, calls, logs>>

(* ----------------------- NewGitHubWalker ------------------------------ *)
\* strconv.ParseBool
ParseBool(s) ==
  IF s \in {"1", "t", "T", "TRUE", "true", "True"} THEN [ok |-> TRUE, val |-> TRUE]
  ELSE IF s \in {"0", "f", "F", "FALSE", "false", "False"} THEN [ok |-> TRUE, val |-> FALSE]
  ELSE [ok |-> FALSE, val |-> FALSE]

\* strconv.Atoi on the strings the model uses
Atoi(s) ==
  IF s = "1" THEN [ok |-> TRUE, val |-> 1]
  ELSE IF s = "2" THEN [ok |-> TRUE, val |-> 2]
  ELSE IF s = "3" THEN [ok |-> TRUE, val |-> 3]
  ELSE [ok |-> FALSE, val |-> 0]

NilWalker ==
  [isNil |-> TRUE, branch |-> "", concurrent |-> FALSE, wait_on_reset |-> FALSE,
   max_workers |-> 0]

Failed(msg) == [gw |-> NilWalker, err |-> msg]

\* What the constructor builds once the URI passed every check.
Built(r, u) ==
  LET mw == IF r = "walk.go" /\ u.concurrent # ""
            THEN (IF u.workers # "" THEN Atoi(u.workers).val ELSE DefaultMaxWorkers)
            ELSE 0
  IN [gw |-> [isNil |-> FALSE,
              branch |-> IF u.branch # "" THEN u.branch ELSE "main",
              concurrent |-> u.concurrent # "" /\ ParseBool(u.concurrent).val,
              wait_on_reset |-> r = "part_000" /\ u.wait_on_reset # ""
                                 /\ ParseBool(u.wait_on_reset).val,
              max_workers |-> mw],
      err |-> "nil"]

\* (mutant) the check of the access token is missing
NewWalkerResultNoToken(r, u) ==
  IF ~u.parses THEN Failed("Failed to parse URI")
  ELSE IF Len(u.parts) # 1 THEN Failed("Invalid path")
  ELSE IF u.concurrent # "" /\ ~ParseBool(u.concurrent).ok THEN Failed("ParseBool")
  ELSE IF r = "part_000" /\ u.wait_on_reset # "" /\ ~ParseBool(u.wait_on_reset).ok
    THEN Failed("Failed to parse wait-on-reset parameter")
  ELSE IF r = "walk.go" /\ u.concurrent # "" /\ u.workers # "" /\ ~Atoi(u.workers).ok
    THEN Failed("Failed to parse workers parameter")
  ELSE Built(r, u)

\* The constructor's result for revision r and URI u: [gw, err].
\* u.parts is strings.Split(strings.TrimLeft(u.Path, "/"), "/").
NewWalkerResult(r, u) ==
  IF ~u.parses THEN Failed("Failed to parse URI")
  ELSE IF Len(u.parts) # 1 THEN Failed("Invalid path")
  ELSE IF u.access_token = "" THEN Failed("Missing access token")
  ELSE IF u.concurrent # "" /\ ~ParseBool(u.concurrent).ok THEN Failed("ParseBool")
  ELSE IF r = "part_000" /\ u.wait_on_reset # "" /\ ~ParseBool(u.wait_on_reset).ok
    THEN Failed("Failed to parse wait-on-reset parameter")
  ELSE IF r = "walk.go" /\ u.concurrent # "" /\ u.workers # "" /\ ~Atoi(u.workers).ok
    THEN Failed("Failed to parse workers parameter")
  ELSE Built(r, u)

NewGitHubWalker ==
  /\ newErr = "pending"
  /\ LET res == NewWalkerResult(rev, uri)
     IN /\ gw' = res.gw
        /\ newErr' = res.err
        /\ read_throttle' = res.gw.max_workers
  /\ UNCHANGED <<rev, uri, repo, api_throttle, emitted, ctxs, calls, logs>>

(* ------------------------- the repository ----------------------------- *)
\* repo.parent[n] is the directory holding n (0: the root, or n is no path
\* of the repository); repo.kind[n] is "file", "dir" or "none".
Present(n) == repo.kind[n] # "none"

\* []*github.RepositoryContent of a directory, in the fetcher's order.
Contents(n) == SelectSeq([i \in Nodes |-> i], LAMBDA c : repo.parent[c] = n)

RECURSIVE Ancestors(_)
Ancestors(n) ==
  IF repo.parent[n] = 0 THEN {} ELSE {repo.parent[n]} \cup Ancestors(repo.parent[n])

(* --------------------------- contexts --------------------------------- *)
\* ctx.Done() of the context WalkURI(n) was called with. In concurrent mode
\* it is the context its parent derived (context.WithCancel), which is Done
\* once cancel() ran in any enclosing directory call or in the caller.
CtxDone(n) == ctxCancelled \/ (Ancestors(n) \cap cancelled # {})

\* ctx.Done() of the context directory n derived for its children.
DerivedDone(n) == n \in cancelled \/ CtxDone(n)

(* ------------------------ calls and returns --------------------------- *)
\* WalkURI(n) runs in a goroutine of its parent's fan-out.
IsGoroutine(n) == n # Root /\ gw.concurrent

\* First statement of WalkURI: part_000 waits for a tick, walk.go does not.
Entry == IF rev = "part_000" THEN "throttle" ELSE "check"

\* (mutant) the goroutine lacks "if err != nil { err_ch <- err }"
AfterReturnNoErr(n, r) ==
  IF n # Root /\ gw.concurrent THEN "send_done" ELSE "returned"

\* Where n is after WalkURI(n) returned r: a goroutine goes on to report
\* (err_ch <- err when r is an error, then the deferred done_ch <- true).
AfterReturn(n, r) ==
  IF IsGoroutine(n) THEN (IF r # Nil THEN "send_err" ELSE "send_done") ELSE "returned"

Return(n, r) ==
  /\ pc' = [pc EXCEPT ![n] = AfterReturn(n, r)]
  /\ ret' = [ret EXCEPT ![n] = r]

(* ------------------------------ WalkURI ------------------------------- *)
\* The caller (cmd/walk/main.go, or any user of the package) calls
\* gw.WalkURI(ctx, root, cb) on a walker that was constructed.
StartWalk ==
  /\ newErr = "nil"
  /\ pc[Root] = "idle"
  /\ pc' = [pc EXCEPT ![Root] = Entry]
  /\ ctxAtCall' = ctxCancelled
  /\ UNCHANGED <<config, throttles, ctxCancelled, cancelled, ret, idx, remaining, logs>>

\* The caller cancels its context.
CancelCtx ==
  /\ newErr = "nil"
  /\ ~ctxCancelled
  /\ ctxCancelled' = TRUE
  /\ UNCHANGED <<config, throttles, ctxAtCall, cancelled, calls, logs>>

\* time.Tick(rate): the ticker puts a tick in the channel unless one is buffered.
Tick ==
  /\ newErr = "nil"
  /\ api_throttle = 0
  /\ api_throttle' = 1
  /\ emitted' = emitted + 1
  /\ UNCHANGED <<config, read_throttle, ctxs, calls, logs>>

\* <-gw.api_throttle
AcquirePermit(n) ==
  /\ pc[n] = "throttle"
  /\ api_throttle > 0
  /\ api_throttle' = api_throttle - 1
  /\ pc' = [pc EXCEPT ![n] = "check"]
  /\ UNCHANGED <<config, emitted, read_throttle, ctxs, ret, idx, remaining, logs>>

\* (mutant) the select on ctx.Done() is missing
CheckCtxNever(n) ==
  /\ pc[n] = "check"
  /\ pc' = [pc EXCEPT ![n] = "fetch"]
  /\ UNCHANGED <<config, throttles, ctxs, ret, idx, remaining, logs>>

\* select { case <-ctx.Done(): return nil; default: }
CheckCtx(n) ==
  /\ pc[n] = "check"
  /\ IF CtxDone(n)
       THEN Return(n, Nil)
       ELSE /\ pc' = [pc EXCEPT ![n] = "fetch"]
            /\ UNCHANGED ret
  /\ UNCHANGED <<config, throttles, ctxs, idx, remaining, logs>>

\* What GetContents may answer for n: what the repository holds there, or,
\* while the walk's budget of faults lasts, a rate-limit error or another error.
Answers(n) ==
  {repo.kind[n]} \cup (IF faults < MaxFaults THEN {"rate_limit", "error"} ELSE {})

IsFault(a) == a \in {"rate_limit", "error"}

\* Where WalkURI(n) goes when GetContents answered a directory.
DirEntry(n) ==
  IF ~gw.concurrent THEN "seq_loop"
  ELSE IF Len(Contents(n)) = 0 THEN "poll"
  ELSE IF rev = "walk.go" THEN "spawn_acquire" ELSE "spawn_check"

\* (mutant) the retry ignores gw.wait_on_reset
RetriesAlways(a) == a = "rate_limit"

\* (mutant) a rate-limit error is never retried
RetriesNever(a) == FALSE

\* if is_rate_limit_err && gw.wait_on_reset (part_000; walk.go has neither)
Retries(a) == a = "rate_limit" /\ gw.wait_on_reset

\* (mutant) "if err != nil" is missing: a failed fetch of a file path goes
\* on to the callback
FetchResultNoErrCheck(n, a) ==
  /\ answer' = [answer EXCEPT ![n] = a]
  /\ fetched' = [fetched EXCEPT ![n] = @ + 1]
  /\ faults' = IF IsFault(a) THEN faults + 1 ELSE faults
  /\ CASE a = "file" \/ (IsFault(a) /\ repo.kind[n] = "file") ->
            /\ pc' = [pc EXCEPT ![n] = "callback"]
            /\ UNCHANGED <<ret, idx, remaining>>
       [] IsFault(a) /\ repo.kind[n] # "file" ->
            /\ Return(n, n)
            /\ UNCHANGED <<idx, remaining>>
       [] a = "dir" ->
            /\ pc' = [pc EXCEPT ![n] = DirEntry(n)]
            /\ idx' = [idx EXCEPT ![n] = 1]
            /\ remaining' = [remaining EXCEPT ![n] = Len(Contents(n))]
            /\ UNCHANGED ret

\* gw.client.Repositories.GetContents and the branches on its result a.
FetchResult(n, a) ==
  /\ answer' = [answer EXCEPT ![n] = a]
  /\ fetched' = [fetched EXCEPT ![n] = @ + 1]
  /\ faults' = IF IsFault(a) THEN faults + 1 ELSE faults
  /\ CASE Retries(a) ->
            /\ pc' = [pc EXCEPT ![n] = "reset_wait"]
            /\ UNCHANGED <<ret, idx, remaining>>
       [] IsFault(a) /\ ~Retries(a) ->
            /\ Return(n, n)
            /\ UNCHANGED <<idx, remaining>>
       [] a = "file" ->
            /\ pc' = [pc EXCEPT ![n] = "callback"]
            /\ UNCHANGED <<ret, idx, remaining>>
       [] a = "dir" ->
            /\ pc' = [pc EXCEPT ![n] = DirEntry(n)]
            /\ idx' = [idx EXCEPT ![n] = 1]
            /\ remaining' = [remaining EXCEPT ![n] = Len(Contents(n))]
            /\ UNCHANGED ret

Fetch(n) ==
  /\ pc[n] = "fetch"
  /\ \E a \in Answers(n) : FetchResult(n, a)
  /\ UNCHANGED <<config, throttles, ctxs, waits, cbLog>>

\* <-time.After(sleep * time.Second); return gw.WalkURI(ctx, uri, cb)
ResetWait(n) ==
  /\ pc[n] = "reset_wait"
  /\ waits' = [waits EXCEPT ![n] = @ + 1]
  /\ pc' = [pc EXCEPT ![n] = Entry]
  /\ UNCHANGED <<config, throttles, ctxs, ret, idx, remaining, answer, faults, fetched, cbLog>>

\* What the callback may return for file n: nil, or an error while the
\* walk's budget of faults lasts.
CbResults(n) == {Nil} \cup (IF faults < MaxFaults THEN {n} ELSE {})

\* err := cb(ctx, file_contents), returning e
CallbackResult(n, e) ==
  /\ cbLog' = Append(cbLog, n)
  /\ faults' = IF e # Nil THEN faults + 1 ELSE faults
  /\ Return(n, e)

Callback(n) ==
  /\ pc[n] = "callback"
  /\ \E e \in CbResults(n) : CallbackResult(n, e)
  /\ UNCHANGED <<config, throttles, ctxs, idx, remaining, answer, fetched, waits>>

(* ----------------------- walkDirectoryContents ------------------------ *)
\* (mutant) the range stops one entry short
SeqLoopShort(n) ==
  /\ pc[n] = "seq_loop"
  /\ IF idx[n] >= Len(Contents(n)) \/ CtxDone(n)
       THEN Return(n, Nil)
       ELSE /\ pc' = [pc EXCEPT ![n] = "seq_wait", ![Contents(n)[idx[n]]] = Entry]
            /\ UNCHANGED ret
  /\ UNCHANGED <<config, throttles, ctxs, idx, remaining, logs>>

\* for _, e := range contents { select ctx.Done -> return nil; WalkURI(e) }
SeqLoop(n) ==
  /\ pc[n] = "seq_loop"
  /\ IF idx[n] > Len(Contents(n)) \/ CtxDone(n)
       THEN Return(n, Nil)
       ELSE /\ pc' = [pc EXCEPT ![n] = "seq_wait", ![Contents(n)[idx[n]]] = Entry]
            /\ UNCHANGED ret
  /\ UNCHANGED <<config, throttles, ctxs, idx, remaining, logs>>

\* (mutant) the child's error is dropped and the range goes on
SeqReturnSwallow(n) ==
  /\ pc[n] = "seq_wait"
  /\ pc[Contents(n)[idx[n]]] = "returned"
  /\ pc' = [pc EXCEPT ![n] = "seq_loop"]
  /\ idx' = [idx EXCEPT ![n] = @ + 1]
  /\ UNCHANGED <<config, throttles, ctxs, ret, remaining, logs>>

\* err := gw.WalkURI(ctx, *e.Path, cb); if err != nil { return err }
SeqReturn(n) ==
  /\ pc[n] = "seq_wait"
  /\ LET c == Contents(n)[idx[n]]
     IN /\ pc[c] = "returned"
        /\ IF ret[c] # Nil
             THEN /\ Return(n, ret[c])
                  /\ UNCHANGED idx
             ELSE /\ pc' = [pc EXCEPT ![n] = "seq_loop"]
                  /\ idx' = [idx EXCEPT ![n] = @ + 1]
                  /\ UNCHANGED ret
  /\ UNCHANGED <<config, throttles, ctxs, remaining, logs>>

(* ----------------- walkDirectoryContentsConcurrently ------------------ *)
\* return with the deferred cancel() of the derived context
ReturnCancel(n, r) ==
  /\ Return(n, r)
  /\ cancelled' = cancelled \cup {n}

\* (mutant) the loop goes on without taking a token out of the pool
AcquireWorkerNoTake(n) ==
  /\ pc[n] = "spawn_acquire"
  /\ read_throttle > 0
  /\ read_throttle' = read_throttle
  /\ pc' = [pc EXCEPT ![n] = "spawn_check"]
  /\ UNCHANGED <<config, api_throttle, emitted, ctxs, ret, idx, remaining, logs>>

\* <-gw.read_throttle (walk.go only)
AcquireWorker(n) ==
  /\ pc[n] = "spawn_acquire"
  /\ read_throttle > 0
  /\ read_throttle' = read_throttle - 1
  /\ pc' = [pc EXCEPT ![n] = "spawn_check"]
  /\ UNCHANGED <<config, api_throttle, emitted, ctxs, ret, idx, remaining, logs>>

\* Loop head after a child was started.
NextSpawn(n) ==
  IF idx[n] >= Len(Contents(n)) THEN "poll"
  ELSE IF rev = "walk.go" THEN "spawn_acquire" ELSE "spawn_check"

\* (mutant) the fan-out starts the next child without looking at ctx.Done()
SpawnChildNoCheck(n) ==
  /\ pc[n] = "spawn_check"
  /\ pc' = [pc EXCEPT ![n] = NextSpawn(n), ![Contents(n)[idx[n]]] = Entry]
  /\ idx' = [idx EXCEPT ![n] = @ + 1]
  /\ UNCHANGED <<ret, cancelled>>
  /\ UNCHANGED <<config, throttles, ctxCancelled, ctxAtCall, remaining, logs>>

\* select { case <-ctx.Done(): return nil; default: }; go func(e) {...}(e)
SpawnChild(n) ==
  /\ pc[n] = "spawn_check"
  /\ IF DerivedDone(n)
       THEN /\ ReturnCancel(n, Nil)
            /\ UNCHANGED idx
       ELSE /\ pc' = [pc EXCEPT ![n] = NextSpawn(n), ![Contents(n)[idx[n]]] = Entry]
            /\ idx' = [idx EXCEPT ![n] = @ + 1]
            /\ UNCHANGED <<ret, cancelled>>
  /\ UNCHANGED <<config, throttles, ctxCancelled, ctxAtCall, remaining, logs>>

\* case <-done_ch: remaining -= 1   (rendezvous with child c's deferred send)
RecvDone(n, c) ==
  /\ pc[n] = "poll"
  /\ remaining[n] > 0
  /\ repo.parent[c] = n
  /\ pc[c] = "send_done"
  /\ remaining' = [remaining EXCEPT ![n] = @ - 1]
  /\ pc' = [pc EXCEPT ![c] = IF rev = "walk.go" THEN "put_token" ELSE "exited"]
  /\ UNCHANGED <<config, throttles, ctxs, ret, idx, logs>>

\* case err := <-err_ch: return err   (rendezvous with child c's err_ch <- err)
RecvErr(n, c) ==
  /\ pc[n] = "poll"
  /\ remaining[n] > 0
  /\ repo.parent[c] = n
  /\ pc[c] = "send_err"
  /\ pc' = [pc EXCEPT ![n] = AfterReturn(n, ret[c]), ![c] = "send_done"]
  /\ ret' = [ret EXCEPT ![n] = ret[c]]
  /\ cancelled' = cancelled \cup {n}
  /\ UNCHANGED <<config, throttles, ctxCancelled, ctxAtCall, idx, remaining, logs>>

\* (mutant) the loop runs while remaining > 1
PollExitEarly(n) ==
  /\ pc[n] = "poll"
  /\ remaining[n] <= 1
  /\ ReturnCancel(n, Nil)
  /\ UNCHANGED <<config, throttles, ctxCancelled, ctxAtCall, idx, remaining, logs>>

\* for remaining > 0 {...} falls through: return nil
PollExit(n) ==
  /\ pc[n] = "poll"
  /\ remaining[n] = 0
  /\ ReturnCancel(n, Nil)
  /\ UNCHANGED <<config, throttles, ctxCancelled, ctxAtCall, idx, remaining, logs>>

\* gw.read_throttle <- true, second statement of the goroutine's defer (walk.go)
PutToken(c) ==
  /\ pc[c] = "put_token"
  /\ read_throttle < gw.max_workers
  /\ read_throttle' = read_throttle + 1
  /\ pc' = [pc EXCEPT ![c] = "exited"]
  /\ UNCHANGED <<config, api_throttle, emitted, ctxs, ret, idx, remaining, logs>>

(* --------------------------- initial states --------------------------- *)
\* Repository trees of up to n paths: path 1 is the root, the parent of a
\* path has a smaller number, a directory lists its children by number.
ParentMaps(n) ==
  {p \in [Nodes -> 0..MaxNodes] :
     /\ p[1] = 0
     /\ \A i \in Nodes : (i > 1 /\ i <= n) => (p[i] >= 1 /\ p[i] < i)
     /\ \A i \in Nodes : i > n => p[i] = 0}

KindMaps(n, p) ==
  {k \in [Nodes -> {"file", "dir", "none"}] :
     /\ \A i \in Nodes : (i > n) <=> (k[i] = "none")
     /\ \A i \in Nodes : (\E c \in Nodes : p[c] = i) => k[i] = "dir"}

Trees(maxn) ==
  UNION {{[parent |-> p, kind |-> k] : k \in KindMaps(n, p)} :
           <<n, p>> \in UNION {{<<m, q>> : q \in ParentMaps(m)} : m \in 1..maxn}}

URI(token, conc, wait, workers) ==
  [parses |-> TRUE, parts |-> <<"repo">>, access_token |-> token, branch |-> "",
   concurrent |-> conc, wait_on_reset |-> wait, workers |-> workers]

\* Everything but the configuration, before NewGitHubWalker is called.
InitRun ==
  /\ gw = NilWalker
  /\ newErr = "pending"
  /\ api_throttle = 0
  /\ emitted = 0
  /\ read_throttle = 0
  /\ ctxCancelled = FALSE
  /\ ctxAtCall = FALSE
  /\ cancelled = {}
  /\ pc = [n \in Nodes |-> "idle"]
  /\ ret = [n \in Nodes |-> NoRet]
  /\ idx = [n \in Nodes |-> 0]
  /\ remaining = [n \in Nodes |-> 0]
  /\ answer = [n \in Nodes |-> "none"]
  /\ fetched = [n \in Nodes |-> 0]
  /\ waits = [n \in Nodes |-> 0]
  /\ cbLog = <<>>

Construct ==
  \/ NewGitHubWalker
  \/ StartWalk

Limiter ==
  \/ Tick
  \/ \E n \in Nodes : AcquirePermit(n)

Visit ==
  \/ \E n \in Nodes : CheckCtx(n)
  \/ \E n \in Nodes : Fetch(n)
  \/ \E n \in Nodes : Callback(n)

Sequential ==
  \/ \E n \in Nodes : SeqLoop(n)
  \/ \E n \in Nodes : SeqReturn(n)

Fanout ==
  \/ \E n \in Nodes : SpawnChild(n)
  \/ \E n \in Nodes : PollExit(n)
  \/ \E n, c \in Nodes : RecvDone(n, c)
  \/ \E n, c \in Nodes : RecvErr(n, c)

Pool ==
  \/ \E n \in Nodes : AcquireWorker(n)
  \/ \E c \in Nodes : PutToken(c)

(* Sequential mode of part_000. *)
InitSeq ==
  /\ rev = "part_000"
  /\ uri \in {URI("tok", "", w, "") : w \in {"", "1"}}
  /\ repo \in Trees(MaxNodes)
  /\ faults = 0
  /\ InitRun

NextSeq ==
  \/ Construct
  \/ CancelCtx
  \/ Limiter
  \/ Visit
  \/ \E n \in Nodes : ResetWait(n)
  \/ Sequential

SpecSeq == InitSeq /\ [][NextSeq]_vars

(* Concurrent mode of part_000. *)
InitConc ==
  /\ rev = "part_000"
  /\ uri \in {URI("tok", "true", w, "") : w \in {"", "1"}}
  /\ repo \in Trees(MaxFanNodes)
  /\ faults = 0
  /\ InitRun

NextConc ==
  \/ Construct
  \/ CancelCtx
  \/ Limiter
  \/ Visit
  \/ \E n \in Nodes : ResetWait(n)
  \/ Fanout

SpecConc == InitConc /\ [][NextConc]_vars

(* Concurrent mode of part_000 when the fetcher and the callback never fail *)
(* and the caller never cancels.                                            *)
InitConcOK ==
  /\ rev = "part_000"
  /\ uri \in {URI("tok", "true", w, "") : w \in {"", "1"}}
  /\ repo \in Trees(MaxNodes)
  /\ faults = MaxFaults
  /\ InitRun

NextConcOK ==
  \/ Construct
  \/ Limiter
  \/ Visit
  \/ \E n \in Nodes : SpawnChild(n)
  \/ \E n \in Nodes : PollExit(n)
  \/ \E n, c \in Nodes : RecvDone(n, c)

SpecConcOK == InitConcOK /\ [][NextConcOK]_vars

(* Concurrent mode of walk.go, the worker-pool revision. *)
InitPool ==
  /\ rev = "walk.go"
  /\ uri \in {URI("tok", "true", "", k) : k \in {"", "1", "2"}}
  /\ repo \in Trees(MaxFanNodes)
  /\ faults = 0
  /\ InitRun

NextPool ==
  \/ Construct
  \/ CancelCtx
  \/ Tick
  \/ Visit
  \/ Fanout
  \/ Pool

SpecPool == InitPool /\ [][NextPool]_vars

(* Both revisions, every configuration URI. *)
URIs ==
  {[parses |-> ps, parts |-> pt, access_token |-> tok, branch |-> "",
    concurrent |-> c, wait_on_reset |-> w, workers |-> k] :
     ps \in BOOLEAN, pt \in {<<"repo">>, <<"repo", "sub">>}, tok \in {"", "tok"},
     c \in {"", "true", "maybe"}, w \in {"", "1", "soon"}, k \in {"", "1", "2", "many"}}

\* The parameters revision r reads; the others are left empty.
Reads(r, u) ==
  /\ r = "part_000" => u.workers = ""
  /\ r = "walk.go" => u.wait_on_reset = "" /\ (u.concurrent = "" => u.workers = "")

Init ==
  /\ rev \in {"part_000", "walk.go"}
  /\ uri \in {u \in URIs : Reads(rev, u)}
  /\ repo \in Trees(MaxFanNodes)
  /\ faults = 0
  /\ InitRun

Next ==
  \/ Construct
  \/ CancelCtx
  \/ Limiter
  \/ Visit
  \/ \E n \in Nodes : ResetWait(n)
  \/ Sequential
  \/ Fanout
  \/ Pool

Spec == Init /\ [][Next]_vars

(* The worker-pool revision when the caller never cancels (cmd/walk/main.go *)
(* passes context.Background()), under fair scheduling: a call or goroutine *)
(* that can take a step eventually takes one.                               *)
NextPoolRun ==
  \/ Construct
  \/ Tick
  \/ Visit
  \/ Fanout
  \/ Pool

\* The steps of the call on path n and of the goroutine running it.
StepOf(n) ==
  \/ CheckCtx(n) \/ Fetch(n) \/ Callback(n)
  \/ AcquireWorker(n) \/ SpawnChild(n) \/ PollExit(n) \/ PutToken(n)
  \/ \E c \in Nodes : RecvDone(n, c) \/ RecvErr(n, c)

FairPool ==
  /\ WF_vars(Construct)
  /\ WF_vars(Tick)
  /\ \A n \in Nodes : WF_vars(StepOf(n))

FairSpecPool == InitPool /\ [][NextPoolRun]_vars /\ FairPool

(* ============================== properties ============================ *)
Files == {n \in Nodes : repo.kind[n] = "file"}
Range(s) == {s[i] : i \in 1..Len(s)}
Count(s, x) == Cardinality({i \in 1..Len(s) : s[i] = x})

\* The top-level WalkURI has returned.
Done == pc[Root] = "returned"

\* Paths at which an error arose (a fatal fetch error or a callback error).
Arisen == {n \in Nodes : ret[n] = n}

\* No fetch answered an error of any kind and no callback returned one.
ErrorFree == Arisen = {} /\ \A n \in Nodes : answer[n] # "rate_limit" /\ waits[n] = 0

RECURSIVE ConcatAll(_)
ConcatAll(ss) == IF ss = <<>> THEN <<>> ELSE Head(ss) \o ConcatAll(Tail(ss))

\* The files below n, depth first, each directory in the fetcher's order.
RECURSIVE PreorderFiles(_)
PreorderFiles(n) ==
  IF repo.kind[n] = "file" THEN <<n>>
  ELSE ConcatAll([i \in 1..Len(Contents(n)) |-> PreorderFiles(Contents(n)[i])])

\* C1: a sequential walk without errors or cancellation returns nil, has
\* fetched every directory and every file exactly once, and has invoked the
\* callback once per file, depth first in the fetcher's order.
C1_SequentialDepthFirst ==
  (Done /\ ~gw.concurrent /\ ~ctxCancelled /\ ErrorFree) =>
     /\ ret[Root] = Nil
     /\ \A n \in Nodes : fetched[n] = IF Present(n) THEN 1 ELSE 0
     /\ cbLog = PreorderFiles(Root)

\* A finished walk of a tree whose depth-first order is not the order of
\* the path numbers: file 4 inside directory 2 is reported before file 3.
C1_Witness ==
  /\ Done /\ ~gw.concurrent /\ ~ctxCancelled /\ ErrorFree
  /\ cbLog = <<4, 3>>

\* C2: a concurrent walk without errors or cancellation has, when WalkURI
\* returns, passed to the callback exactly the files a sequential walk
\* passes (each once), in any order.
C2_ConcurrentSameFiles ==
  (Done /\ gw.concurrent /\ ~ctxCancelled /\ ErrorFree) =>
     /\ ret[Root] = Nil
     /\ Range(cbLog) = Range(PreorderFiles(Root))
     /\ \A n \in Nodes : Count(cbLog, n) = Count(PreorderFiles(Root), n)

\* A finished concurrent walk that reported three files in an order no
\* sequential walk produces.
C2_Witness ==
  /\ Done /\ gw.concurrent /\ ErrorFree
  /\ Len(cbLog) = 3
  /\ cbLog # PreorderFiles(Root)

\* C3: a WalkURI called with a context that is already cancelled returns
\* nil, fetches nothing and never invokes the callback.
C3_CancelledBeforeCall ==
  ctxAtCall =>
     /\ \A n \in Nodes : fetched[n] = 0
     /\ cbLog = <<>>
     /\ Done => ret[Root] = Nil

\* Such a call has returned, in concurrent mode on a directory with children.
C3_Witness ==
  /\ ctxAtCall /\ Done /\ gw.concurrent
  /\ Len(Contents(Root)) = 2

\* The children of the root whose goroutine handed its error to the root.
Reported == {c \in Range(Contents(Root)) : ret[c] # Nil /\ pc[c] = "send_done"}

\* C4 (as claimed): in concurrent mode, whenever the top-level WalkURI
\* returns after an error arose below the root, it returns a non-nil error,
\* one that a child task reported.
C4_AsClaimed ==
  [][(gw.concurrent /\ pc[Root] # "returned" /\ pc'[Root] = "returned"
        /\ (Arisen \ {Root}) # {})
      => (ret'[Root] # Nil /\ \E c \in Range(Contents(Root)) : ret[c] = ret'[Root])]_vars

\* C4 (amended): the same when the caller's context was never cancelled: the
\* returned error arose at some path and is the one error the root received
\* on err_ch, from a child that is past its err_ch send.
C4_ErrorReturned ==
  (Done /\ gw.concurrent /\ ~ctxCancelled /\ (Arisen \ {Root}) # {}) =>
     /\ ret[Root] # Nil
     /\ ret[Root] \in Arisen
     /\ \E c \in Reported : ret[c] = ret[Root]

\* The root returned child 3's error while child 2 had not yet fetched.
C4_Witness ==
  /\ Done /\ gw.concurrent /\ ~ctxCancelled
  /\ ret[Root] = 3
  /\ pc[2] = "throttle"

\* What a walk below n yields when rate-limit answers are left out: the
\* error of the first path, depth first, at which an error arose, and the
\* files handed to the callback up to there.
RECURSIVE Expect(_), ExpectAll(_)
Expect(n) ==
  IF ret[n] = n /\ answer[n] # "file" THEN [err |-> n, log |-> <<>>]
  ELSE IF repo.kind[n] = "file" THEN [err |-> IF ret[n] = n THEN n ELSE Nil, log |-> <<n>>]
  ELSE ExpectAll(Contents(n))
ExpectAll(cs) ==
  IF cs = <<>> THEN [err |-> Nil, log |-> <<>>]
  ELSE LET h == Expect(Head(cs))
       IN IF h.err # Nil THEN h
          ELSE LET t == ExpectAll(Tail(cs)) IN [err |-> t.err, log |-> h.log \o t.log]

\* C5: with wait-on-reset, a rate-limit answer is never returned as an
\* error; every such answer is followed by one wait and one more fetch of
\* the same path; and a walk that was not cancelled ends as it would have
\* without the rate-limit answers (sequential: the same error and callback
\* sequence; concurrent, no other error: nil and every file once).
C5_RetryTransparent ==
  gw.wait_on_reset =>
     /\ \A n \in Nodes :
          /\ (answer[n] = "rate_limit" /\ ret[n] # NoRet) => (ret[n] = Nil /\ CtxDone(n))
          /\ answer[n] \in {"file", "dir", "error"} => fetched[n] = waits[n] + 1
          /\ pc[n] \in {"throttle", "check", "fetch"} => fetched[n] = waits[n]
     /\ (Done /\ ~ctxCancelled /\ ~gw.concurrent) =>
          (ret[Root] = Expect(Root).err /\ cbLog = Expect(Root).log)
     /\ (Done /\ ~ctxCancelled /\ gw.concurrent /\ Arisen = {}) =>
          /\ ret[Root] = Nil
          /\ \A n \in Nodes : Count(cbLog, n) = Count(PreorderFiles(Root), n)

\* A sequential walk that waited out a rate limit on file 2 and then went
\* on to hand both files to the callback.
C5_Witness ==
  /\ gw.wait_on_reset /\ Done /\ ~ctxCancelled /\ ~gw.concurrent
  /\ waits[2] = 1 /\ fetched[2] = 2
  /\ cbLog = <<2, 3>>
  /\ ret[Root] = Nil

\* C6: without wait-on-reset, the call whose fetch was answered with a
\* rate-limit error has returned an error, slept no reset wait and fetched
\* the path once.
C6_RateLimitFatal ==
  \A n \in Nodes :
     (~gw.wait_on_reset /\ answer[n] = "rate_limit") =>
        (ret[n] = n /\ waits[n] = 0 /\ fetched[n] = 1)

C6_Witness ==
  /\ rev = "part_000" /\ ~gw.wait_on_reset
  /\ answer[2] = "rate_limit"
  /\ Done /\ ret[Root] = 2

\* C7: in every state the callback has been invoked at most once per path,
\* only for files, and only by a call whose fetch answered the file: never
\* for a directory, never after a fetch that answered an error.
C7_CallbackOncePerFile ==
  \A n \in Nodes :
     /\ Count(cbLog, n) <= 1
     /\ Count(cbLog, n) = 1 => (repo.kind[n] = "file" /\ answer[n] = "file")
     /\ pc[n] = "callback" => (answer[n] = "file" /\ Count(cbLog, n) = 0)

\* A concurrent walk in which one file was reported, after a rate-limit
\* retry, and the fetch of another failed.
C7_Witness ==
  /\ gw.concurrent
  /\ Count(cbLog, 2) = 1 /\ waits[2] = 1
  /\ answer[3] = "error" /\ repo.kind[3] = "file"

\* C8 (as claimed): a nil return without cancellation means every file was
\* handed to the callback and no fetch and no callback returned an error.
C8_AsClaimed ==
  (Done /\ ~ctxCancelled /\ ret[Root] = Nil) =>
     /\ Files \subseteq Range(cbLog)
     /\ Arisen = {}
     /\ \A n \in Nodes : fetched[n] <= 1

\* C8 (amended): ... and no fetch and no callback returned an error, apart
\* from rate-limit errors that were waited out and retried.
C8_NoErrorSwallowed ==
  (Done /\ ~ctxCancelled /\ ret[Root] = Nil) =>
     /\ Files \subseteq Range(cbLog)
     /\ Arisen = {}
     /\ \A n \in Nodes : answer[n] \notin {"error", "rate_limit"}
     /\ \A n \in Nodes : fetched[n] > 1 => (gw.wait_on_reset /\ waits[n] = fetched[n] - 1)

C8_Witness ==
  /\ Done /\ ~ctxCancelled /\ ret[Root] = Nil
  /\ gw.concurrent
  /\ Cardinality(Files) = 2

\* C9: in the worker-pool revision, once the top-level WalkURI has returned
\* the pool eventually holds max_workers tokens again.
C9_TokensReturn ==
  [](Done => <>(read_throttle = gw.max_workers))

\* C10: a configuration URI without access_token yields an error and no
\* walker, and no traversal ever starts.
C10_MissingToken ==
  (uri.access_token = "" /\ newErr # "pending") =>
     /\ gw = NilWalker
     /\ newErr \in {"Failed to parse URI", "Invalid path", "Missing access token"}
     /\ \A n \in Nodes : pc[n] = "idle" /\ fetched[n] = 0

C10_Witness ==
  /\ uri.access_token = ""
  /\ uri.concurrent = "true"
  /\ newErr = "Missing access token"

RECURSIVE SumTo(_, _)
SumTo(f, k) == IF k = 0 THEN 0 ELSE f[k] + SumTo(f, k - 1)

\* GetContents calls issued so far, over all paths.
TotalFetched == SumTo(fetched, MaxNodes)

\* Ticks taken out of api_throttle so far.
PermitsTaken == emitted - api_throttle

\* C11: every fetch is preceded by its call taking one permit, so at every
\* point the fetches issued are at most the permits taken, hence at most
\* the permits emitted, and at most one permit is buffered.
C11_PermitBeforeFetch ==
  /\ TotalFetched <= PermitsTaken
  /\ PermitsTaken <= emitted
  /\ api_throttle <= 1

\* C12: a WalkURI called with a context that is already cancelled neither
\* waits for a permit nor takes one.
C12_CheckBeforePermit ==
  ctxAtCall => (pc[Root] # "throttle" /\ PermitsTaken = 0)

\* C13: sequential mode is fail-fast. Once an error has arisen anywhere in
\* the walk no path is fetched and no callback runs any more, no call is
\* started, and the only step a call takes is to return that same error.
C13_SequentialFailFast ==
  [][Arisen # {} =>
       /\ fetched' = fetched
       /\ cbLog' = cbLog
       /\ \A n \in Nodes :
            pc'[n] # pc[n] => (pc'[n] = "returned" /\ ret'[n] \in Arisen)]_vars

\* The error of path 3, inside directory 2, came back from the top-level
\* call while 2's following sibling 4 was never visited.
C13_Witness ==
  /\ Done
  /\ ret[Root] = 3
  /\ repo.parent[3] = 2
  /\ repo.parent[4] = Root
  /\ Present(4)
  /\ pc[4] = "idle"
  /\ fetched[4] = 0

(* Concurrent mode of part_000 when the caller never cancels, with every   *)
(* call and goroutine scheduled fairly and the limiter ticking for ever.   *)
NextConcRun ==
  \/ Construct
  \/ Limiter
  \/ Visit
  \/ \E n \in Nodes : ResetWait(n)
  \/ Fanout

\* The steps of the call on path n in part_000, the receive of a tick apart.
StepOfConc(n) ==
  \/ CheckCtx(n) \/ Fetch(n) \/ Callback(n) \/ ResetWait(n)
  \/ SpawnChild(n) \/ PollExit(n)
  \/ \E c \in Nodes : RecvDone(n, c) \/ RecvErr(n, c)

\* A call waiting on api_throttle gets a tick if ticks keep coming: the
\* receive is strongly fair, another waiter may take any single tick.
FairConc ==
  /\ WF_vars(Construct)
  /\ WF_vars(Tick)
  /\ \A n \in Nodes : WF_vars(StepOfConc(n))
  /\ \A n \in Nodes : SF_vars(AcquirePermit(n))

FairSpecConc == InitConc /\ [][NextConcRun]_vars /\ FairConc

\* C14: concurrent mode, once a directory call has returned an error
\* every other child task it spawned (every sibling of the child whose
\* error it returned) eventually terminates; none stays blocked on the
\* done or error channel.
C14_SiblingsTerminate ==
  \A c \in Nodes \ {Root} :
    []((/\ Present(c)
        /\ pc[c] # "idle"
        /\ pc[repo.parent[c]] = "returned"
        /\ ret[repo.parent[c]] # Nil
        /\ ret[c] # ret[repo.parent[c]]) => <>(pc[c] = "exited"))

(* The fault-free concurrent walk of part_000 under the weakest scheduling *)
(* assumption: while some call, goroutine or the limiter can take a step,  *)
(* one of them eventually does. Every fair scheduler satisfies it.         *)
FairSpecConcOK == InitConcOK /\ [][NextConcOK]_vars /\ WF_vars(NextConcOK)

\* Every child task, at every depth, has run to its end.
AllExited == \A n \in Nodes \ {Root} : Present(n) => pc[n] = "exited"

\* C15: concurrent mode of part_000 with no error, a limiter that keeps
\* ticking and fair scheduling: the top-level WalkURI eventually returns,
\* it returns nil, and when it returns every child task has terminated.
C15_ReturnsWhenAllDone ==
  /\ <>Done
  /\ [](Done => (ret[Root] = Nil /\ AllExited))

\* A finished walk of nested directories: 2 and 3 are directories, 4 is
\* inside 3, 3 is inside 2.
C15_Witness ==
  /\ Done
  /\ ret[Root] = Nil
  /\ repo.kind[2] = "dir" /\ repo.kind[3] = "dir" /\ Present(4)
  /\ repo.parent[3] = 2 /\ repo.parent[4] = 3
  /\ pc[4] = "exited"
  /\ fetched[4] = 1

\* Child tasks that hold a worker token: started and not yet past the
\* deferred gw.read_throttle <- true.
Holders == {c \in Nodes \ {Root} : pc[c] \notin {"idle", "exited"}}

\* Tokens a spawn loop has taken for a child it has not started yet.
Reserved == {n \in Nodes : pc[n] = "spawn_check"}

\* C16: with the worker pool (walk.go, concurrent mode) the tasks holding a
\* token are never more than max_workers, and the tokens in read_throttle
\* plus the tokens held never exceed max_workers.
C16_PoolBounded ==
  /\ read_throttle >= 0
  /\ Cardinality(Holders) <= gw.max_workers
  /\ read_throttle + Cardinality(Holders) + Cardinality(Reserved) <= gw.max_workers

\* Both tokens of a pool of two are held by running child tasks.
C16_Witness ==
  /\ gw.max_workers = 2
  /\ read_throttle = 0
  /\ Cardinality(Holders) = 2
  /\ \E c \in Holders : pc[c] = "fetch"

\* C17: walk.go, concurrent mode, any max_workers >= 1 and any tree: a
\* walk in which no fetch and no callback fails eventually returns nil at
\* the top level under fair scheduling; it never deadlocks.
C17_PoolWalkReturns ==
  <>(faults > 0 \/ (Done /\ ret[Root] = Nil))

\* A call that has started and has not yet passed its ctx.Done() check.
Starting(n) == pc[n] \in {"throttle", "check"}

\* C18: cancellation checkpoints. Once the context of a call is done, a
\* call that is starting neither fetches nor runs the callback and returns
\* nil; no directory, sequential or concurrent, starts a further child;
\* and a cancelled walk in which no error arose returns nil at the top.
C18_CancellationCheckpoints ==
  [][/\ \A n \in Nodes :
          (CtxDone(n) /\ Starting(n)) =>
             /\ fetched'[n] = fetched[n]
             /\ Count(cbLog', n) = Count(cbLog, n)
             /\ Starting(n)' \/ (pc'[n] \in {"returned", "send_done"} /\ ret'[n] = Nil)
     /\ \A n \in Nodes \ {Root} :
          (CtxDone(n) /\ pc[n] = "idle") => pc'[n] = "idle"
     /\ (Done' /\ ctxCancelled' /\ Arisen' = {}) => ret'[Root] = Nil]_vars

\* The caller cancelled mid-way: path 2 had been fetched, the top-level
\* call returned nil and path 3, next in the same directory, was never
\* started.
C18_Witness ==
  /\ ctxCancelled /\ ~ctxAtCall
  /\ Done /\ ret[Root] = Nil
  /\ fetched[2] = 1
  /\ Present(3) /\ repo.parent[3] = Root
  /\ pc[3] = "idle" /\ fetched[3] = 0

====
